---------------------------- MODULE Spec2Model ----------------------------
(***************************************************************************)
(* The candle relay of src/main.py: a lazily opened upstream subscription  *)
(* (active_bybit_ws), the relay queue (message_queue), the client registry *)
(* (clients), one connection handler per websocket (websocket_endpoint),   *)
(* the broadcast loop (broadcast_messages), the upstream callback          *)
(* (bybit_callback) and the shutdown section of lifespan.                  *)
(*                                                                         *)
(* Atomicity follows the event loop: a step of a coroutine runs from one   *)
(* await to the next.  The upstream callback runs on the library's thread; *)
(* deque.append and deque.popleft are single atomic operations.            *)
(*                                                                         *)
(* A batch is named by the ordinal of its enqueue (1, 2, ...), so that two *)
(* batches with equal text remain distinguishable.  A websocket object and *)
(* the BybitWebSocket object constructed by its handler are both named by  *)
(* the connection's number.                                                *)
(***************************************************************************)
EXTENDS Naturals, Sequences, FiniteSets

\* Number of websocket connections the server sees in a run.
NumConns == 2
\* Number of batches the upstream callback appends in a run.
MaxBatches == 2

Conns == 1..NumConns
Batches == 1..MaxBatches
\* Python's None; also "no batch" / "no client" in the loop's locals.
None == 0

VARIABLES
    active_bybit_ws,  \* None, or the handle of the BybitWebSocket object
    message_queue,    \* the deque of batches
    clients,          \* the set of registered websockets
    pc,               \* position of each connection's websocket_endpoint
    bpc,              \* position of the broadcast_messages task
    message,          \* broadcast_messages: the popped batch being sent
    cur,              \* broadcast_messages: the client whose send is awaited
    rest,             \* broadcast_messages: clients of list(clients) not yet reached
    live,             \* BybitWebSocket objects constructed and not yet exited
    subscribed,       \* live objects whose kline_stream is subscribed
    orderbook,        \* objects on which orderbook_stream was called
    exitCalls,        \* number of exit() calls made on each object
    stopped,          \* the lifespan shutdown section has run
    produced,         \* history: number of batches appended so far
    dispatched,       \* history: the batches popped, in order
    recipients,       \* history: the registry at the instant each batch was popped
    received,         \* history: per connection, the batches delivered to it, in order
    failedAt,         \* history: <<batch, client>> pairs whose send_text raised
    leftover,         \* history: batches that were queued when a finally block closed the subscription
    fpc,              \* position of the one call of bybit_callback or read_root under study
    tick,             \* bybit_callback: its argument message["data"]
    payload,          \* bybit_callback: converted_messages as appended (json.dumps of it)
    klines_history,   \* read_root: result["list"] as returned by the upstream query
    response          \* read_root: the returned list

vars == <<active_bybit_ws, message_queue, clients, pc, bpc, message, cur, rest,
          live, subscribed, orderbook, exitCalls, stopped,
          produced, dispatched, recipients, received, failedAt, leftover,
          fpc, tick, payload, klines_history, response>>

upstreamVars == <<active_bybit_ws, live, subscribed, exitCalls>>
loopVars == <<bpc, message, cur, rest>>
histVars == <<produced, dispatched, recipients, received, failedAt>>
callVars == <<fpc, tick, payload, klines_history, response>>

Init ==
    /\ active_bybit_ws = None
    /\ message_queue = <<>>
    /\ clients = {}
    /\ pc = [c \in Conns |-> "idle"]
    /\ bpc = "sleep"
    /\ message = None
    /\ cur = None
    /\ rest = {}
    /\ live = {}
    /\ subscribed = {}
    /\ orderbook = {}
    /\ exitCalls = [c \in Conns |-> 0]
    /\ stopped = FALSE
    /\ produced = 0
    /\ dispatched = <<>>
    /\ recipients = [b \in Batches |-> {}]
    /\ received = [c \in Conns |-> <<>>]
    /\ failedAt = {}
    /\ leftover = {}
    /\ fpc = "none"
    /\ tick = <<>>
    /\ payload = <<>>
    /\ klines_history = <<>>
    /\ response = <<>>

-----------------------------------------------------------------------------
(* websocket_endpoint *)

\* Mutant: the subscription is opened whether or not one exists.
NeedsOpenAlways == TRUE

\* Mutant: the subscription is never opened.
NeedsOpenNever == FALSE

\* The test "active_bybit_ws is None".
NeedsOpen == active_bybit_ws = None

\* Mutant: the close test ignores the registry.
LastClientGoneIgnoringRegistry(cs, ws) == ws # None

\* Mutant: the finally block never closes the subscription.
LastClientGoneNever(cs, ws) == FALSE

\* The test "not clients and active_bybit_ws" of the finally block.
LastClientGone(cs, ws) == cs = {} /\ ws # None

\* Mutant: the close also empties the relay queue.
QueueAfterCloseCleared(q) == <<>>

\* The close (exit(), handle set to None) does not touch message_queue.
QueueAfterClose(q) == q

\* The finally block run by connection c, with ws, lv, sb the handle, the live
\* objects and the subscribed objects at its entry.
Finally(c, ws, lv, sb) ==
    LET cs == clients \ {c} IN
    /\ clients' = cs
    /\ IF LastClientGone(cs, ws)
       THEN /\ active_bybit_ws' = None
            /\ live' = lv \ {ws}
            /\ subscribed' = sb \ {ws}
            /\ exitCalls' = [exitCalls EXCEPT ![ws] = @ + 1]
            /\ message_queue' = QueueAfterClose(message_queue)
            /\ leftover' = leftover \cup {message_queue[i] : i \in DOMAIN message_queue}
       ELSE /\ active_bybit_ws' = ws
            /\ live' = lv
            /\ subscribed' = sb
            /\ exitCalls' = exitCalls
            /\ UNCHANGED <<message_queue, leftover>>

\* A connection arrives: the handler starts and awaits websocket.accept().
Connect(c) ==
    /\ ~stopped
    /\ pc[c] = "idle"
    /\ pc' = [pc EXCEPT ![c] = "accepting"]
    /\ UNCHANGED <<active_bybit_ws, message_queue, clients, loopVars, live,
                   subscribed, orderbook, exitCalls, stopped, histVars,
                   leftover, callVars>>

\* websocket.accept() raises: the handler ends before its try block.
AcceptFails(c) ==
    /\ pc[c] = "accepting"
    /\ pc' = [pc EXCEPT ![c] = "refused"]
    /\ UNCHANGED <<active_bybit_ws, message_queue, clients, loopVars, live,
                   subscribed, orderbook, exitCalls, stopped, histVars,
                   leftover, callVars>>

\* accept() returns: clients.add, the lazy open, then the first receive_text().
\* ctorOk, klineOk: whether the constructor and kline_stream return normally.
Register(c, ctorOk, klineOk) ==
    /\ pc[c] = "accepting"
    /\ IF ~NeedsOpen
       THEN /\ clients' = clients \cup {c}
            /\ pc' = [pc EXCEPT ![c] = "reading"]
            /\ UNCHANGED <<upstreamVars, message_queue, leftover>>
       ELSE IF ctorOk /\ klineOk
       THEN /\ clients' = clients \cup {c}
            /\ active_bybit_ws' = c
            /\ live' = live \cup {c}
            /\ subscribed' = subscribed \cup {c}
            /\ pc' = [pc EXCEPT ![c] = "reading"]
            /\ UNCHANGED <<exitCalls, message_queue, leftover>>
       ELSE IF ctorOk
       THEN /\ Finally(c, c, live \cup {c}, subscribed)
            /\ pc' = [pc EXCEPT ![c] = "error"]
       ELSE /\ Finally(c, active_bybit_ws, live, subscribed)
            /\ pc' = [pc EXCEPT ![c] = "error"]
    /\ UNCHANGED <<loopVars, orderbook, stopped, histVars, callVars>>

\* receive_text() returns a text; isSubscribe: it starts with "subscribe:".
ClientCommand(c, isSubscribe) ==
    /\ pc[c] = "reading"
    /\ IF ~isSubscribe
       THEN UNCHANGED <<clients, pc, orderbook, upstreamVars, message_queue,
                        leftover>>
       ELSE IF active_bybit_ws # None
       THEN /\ orderbook' = orderbook \cup {active_bybit_ws}
            /\ UNCHANGED <<clients, pc, upstreamVars, message_queue, leftover>>
       ELSE /\ Finally(c, active_bybit_ws, live, subscribed)
            /\ pc' = [pc EXCEPT ![c] = "error"]
            /\ UNCHANGED orderbook
    /\ UNCHANGED <<loopVars, stopped, histVars, callVars>>

\* receive_text() raises WebSocketDisconnect.
Disconnect(c) ==
    /\ pc[c] = "reading"
    /\ Finally(c, active_bybit_ws, live, subscribed)
    /\ pc' = [pc EXCEPT ![c] = "closed"]
    /\ UNCHANGED <<loopVars, orderbook, stopped, histVars, callVars>>

-----------------------------------------------------------------------------
(* bybit_callback *)

\* Mutant: the batch is appended at the head of the deque.
appendleft(q, b) == <<b>> \o q

\* message_queue.append
append(q, b) == Append(q, b)

\* One upstream tick arrives on a subscribed object.  wellFormed: every record
\* converts; otherwise the except clause logs and nothing is appended.
bybit_callback(wellFormed) ==
    /\ subscribed # {}
    /\ produced < MaxBatches
    /\ IF wellFormed
       THEN /\ message_queue' = append(message_queue, produced + 1)
            /\ produced' = produced + 1
       ELSE UNCHANGED <<message_queue, produced>>
    /\ UNCHANGED <<active_bybit_ws, clients, pc, loopVars, live, subscribed,
                   orderbook, exitCalls, stopped, dispatched, recipients,
                   received, failedAt, leftover, callVars>>

-----------------------------------------------------------------------------
(* broadcast_messages *)

\* Mutant: the tick pops whenever the queue is non-empty.
TickGuardQueueOnly == message_queue # <<>>

\* The test "message_queue and clients".
TickGuard == message_queue # <<>> /\ clients # {}

\* Mutant: pop() takes the newest batch.
pop(q) == [message |-> q[Len(q)], queue |-> SubSeq(q, 1, Len(q) - 1)]

\* Mutant: the tick drains the whole queue and sends only its head.
popleftAll(q) == [message |-> Head(q), queue |-> <<>>]

\* message_queue.popleft()
popleft(q) == [message |-> Head(q), queue |-> Tail(q)]

\* Mutant: the loop iterates over every connection whose handler is running.
SnapshotOfHandlers == {c \in Conns : pc[c] = "reading"}

\* list(clients): the copy of the registry the for loop iterates over.
Snapshot == clients

\* Mutant: the failed client stays registered.
discardNothing(cs, c) == cs

\* clients.discard(client)
discard(cs, c) == cs \ {c}

\* Mutant: the exception leaves the for loop.
RemainingAfterFailureNone(r) == {}

\* The except clause is inside the for loop: the iteration goes on.
RemainingAfterFailure(r) == r

\* The for loop takes its next client from r, in the list's (arbitrary) order,
\* and awaits its send_text; with none left the task awaits asyncio.sleep.
Advance(r) ==
    IF r = {}
    THEN /\ bpc' = "sleep"
         /\ message' = None
         /\ cur' = None
         /\ rest' = {}
    ELSE /\ bpc' = "send"
         /\ message' = message
         /\ \E c \in r : cur' = c /\ rest' = r \ {c}

\* asyncio.sleep returns: one pass of the while loop up to its first await.
Tick ==
    /\ bpc = "sleep"
    /\ IF TickGuard
       THEN LET p == popleft(message_queue) IN
            /\ message_queue' = p.queue
            /\ dispatched' = Append(dispatched, p.message)
            /\ recipients' = [recipients EXCEPT ![p.message] = clients]
            /\ IF Snapshot = {}
               THEN UNCHANGED loopVars
               ELSE /\ bpc' = "send"
                    /\ message' = p.message
                    /\ \E c \in Snapshot : cur' = c /\ rest' = Snapshot \ {c}
       ELSE UNCHANGED <<message_queue, dispatched, recipients, loopVars>>
    /\ UNCHANGED <<active_bybit_ws, clients, pc, live, subscribed, orderbook,
                   exitCalls, stopped, produced, received, failedAt, leftover,
                   callVars>>

\* send_text returns: the batch is delivered to cur.  A write on a connection
\* whose handler has ended cannot deliver.
SendOk ==
    /\ bpc = "send"
    /\ pc[cur] = "reading"
    /\ received' = [received EXCEPT ![cur] = Append(@, message)]
    /\ Advance(rest)
    /\ UNCHANGED <<active_bybit_ws, message_queue, clients, pc, live, subscribed,
                   orderbook, exitCalls, stopped, produced, dispatched,
                   recipients, failedAt, leftover, callVars>>

\* send_text raises: the client is discarded and the loop goes on.
SendFails ==
    /\ bpc = "send"
    /\ clients' = discard(clients, cur)
    /\ failedAt' = failedAt \cup {<<message, cur>>}
    /\ Advance(RemainingAfterFailure(rest))
    /\ UNCHANGED <<active_bybit_ws, message_queue, pc, live, subscribed,
                   orderbook, exitCalls, stopped, produced, dispatched,
                   recipients, received, leftover, callVars>>

\* send_text neither returns nor raises (a peer that stopped reading): the
\* task stays at this await.
SendHangs ==
    /\ bpc = "send"
    /\ pc[cur] = "reading"
    /\ bpc' = "hung"
    /\ UNCHANGED <<active_bybit_ws, message_queue, clients, pc, message, cur,
                   rest, live, subscribed, orderbook, exitCalls, stopped,
                   histVars, leftover, callVars>>

-----------------------------------------------------------------------------
(* lifespan *)

\* The section after the yield: task.cancel(), then exit() on the handle,
\* which is kept.  No connection is accepted afterwards; handlers that are
\* still running go on.
Shutdown ==
    /\ ~stopped
    /\ stopped' = TRUE
    /\ bpc' = "cancelled"
    /\ IF active_bybit_ws # None
       THEN /\ live' = live \ {active_bybit_ws}
            /\ subscribed' = subscribed \ {active_bybit_ws}
            /\ exitCalls' = [exitCalls EXCEPT ![active_bybit_ws] = @ + 1]
       ELSE UNCHANGED <<live, subscribed, exitCalls>>
    /\ UNCHANGED <<active_bybit_ws, message_queue, clients, pc, message, cur,
                   rest, orderbook, histVars, leftover, callVars>>

-----------------------------------------------------------------------------

Next ==
    \/ \E c \in Conns : Connect(c)
    \/ \E c \in Conns : AcceptFails(c)
    \/ \E c \in Conns, ctorOk \in BOOLEAN, klineOk \in BOOLEAN :
           Register(c, ctorOk, klineOk)
    \/ \E c \in Conns, isSubscribe \in BOOLEAN : ClientCommand(c, isSubscribe)
    \/ \E c \in Conns : Disconnect(c)
    \/ \E wellFormed \in BOOLEAN : bybit_callback(wellFormed)
    \/ Tick
    \/ SendOk
    \/ SendFails
    \/ SendHangs
    \/ Shutdown

Spec == Init /\ [][Next]_vars

\* Every variable has the shape the code gives it.
TypeOK ==
    /\ active_bybit_ws \in Conns \cup {None}
    /\ message_queue \in Seq(Batches)
    /\ clients \subseteq Conns
    /\ pc \in [Conns -> {"idle", "accepting", "reading", "closed", "error", "refused"}]
    /\ bpc \in {"sleep", "send", "hung", "cancelled"}
    /\ message \in Batches \cup {None}
    /\ cur \in Conns \cup {None}
    /\ rest \subseteq Conns
    /\ live \subseteq Conns
    /\ subscribed \subseteq live
    /\ orderbook \subseteq Conns
    /\ stopped \in BOOLEAN
    /\ produced \in 0..MaxBatches

-----------------------------------------------------------------------------
(* The conversions of bybit_callback and read_root, on concrete payloads.    *)
(* A raw numeric field is [kind, val]: kind "num" for a text float() parses  *)
(* (val its value), "text" for one it rejects, "absent" for a missing key.   *)
(* A value in seconds is kept as a whole number of thousandths of a second,  *)
(* so that x / 1000 of a millisecond count x is exact.                       *)

\* Number of records in one upstream tick.
MaxRecords == 2
\* Number of rows in one upstream query result.
MaxRows == 3

Num(n) == [kind |-> "num", val |-> n]
Text == [kind |-> "text", val |-> 0]
Absent == [kind |-> "absent", val |-> 0]

NumericFields == {"close", "high", "low", "open", "timestamp", "start", "end"}

\* Well-formed kline records of the vendor's push.
GoodRecords ==
    {[close |-> Num(c), high |-> Num(8), low |-> Num(2), open |-> Num(5),
      timestamp |-> Num(t), start |-> Num(0), end |-> Num(59999),
      confirm |-> k] :
        c \in {6, 7}, t \in {1500, 61250}, k \in {"true", "false"}}

BaseRecord ==
    [close |-> Num(6), high |-> Num(8), low |-> Num(2), open |-> Num(5),
     timestamp |-> Num(1500), start |-> Num(0), end |-> Num(59999),
     confirm |-> "true"]

\* Records with one field missing or not numeric.
BadRecords ==
    {[BaseRecord EXCEPT ![f] = v] : f \in NumericFields, v \in {Text, Absent}}
    \cup {[BaseRecord EXCEPT !["confirm"] = "absent"]}

Records == GoodRecords \cup BadRecords

SeqsUpTo(S, n) == UNION {[1..k -> S] : k \in 0..n}

Ticks == SeqsUpTo(Records, MaxRecords)

\* Rows [startTime, open, high, low, close] of the vendor's query result.
Rows ==
    {<<Num(t), Num(p[1]), Num(p[2]), Num(p[3]), Num(p[4])>> :
        t \in {0, 1500, 60000}, p \in {<<5, 8, 2, 6>>, <<6, 9, 5, 7>>}}

Results == SeqsUpTo(Rows, MaxRows)

\* float(x), x a dict lookup: KeyError for a missing key, ValueError for a
\* text that is no number.
float(x) == [raised |-> x.kind # "num", val |-> x.val]

\* Mutant: the offset is three minutes.
secondsShiftedByMinutes(ms) == ms + (3 * 60) * 1000

\* ms / 1000 + (3 * 60 * 60), in thousandths of a second.
seconds(ms) == ms + (3 * 60 * 60) * 1000

\* The body of the for loop of bybit_callback for one record m.
converted_message(m) ==
    IF \/ \E f \in NumericFields : float(m[f]).raised
       \/ m.confirm = "absent"
    THEN [raised |-> TRUE, val |-> <<>>]
    ELSE [raised |-> FALSE,
          val |-> <<[close |-> float(m.close).val,
                     high |-> float(m.high).val,
                     low |-> float(m.low).val,
                     open |-> float(m.open).val,
                     time |-> seconds(float(m.timestamp).val),
                     start |-> seconds(float(m.start).val),
                     end |-> seconds(float(m.end).val),
                     confirm |-> m.confirm]>>]

\* The for loop of bybit_callback from record i on, acc the list built so
\* far: it stops at the first record that raises.
RECURSIVE converted_messages(_, _, _)
converted_messages(data, i, acc) ==
    IF i > Len(data)
    THEN [raised |-> FALSE, list |-> acc]
    ELSE LET r == converted_message(data[i]) IN
         IF r.raised
         THEN [raised |-> TRUE, list |-> acc]
         ELSE converted_messages(data, i + 1, acc \o r.val)

\* Mutant: the append is made whether or not the loop raised.
ReachesAppendAlways(r) == TRUE

\* message_queue.append is the last statement of the try block.
ReachesAppend(r) == ~r.raised

\* One call of bybit_callback on the payload tick.
bybit_callback_call ==
    /\ fpc = "called"
    /\ tick \in Ticks
    /\ fpc' = "returned"
    /\ LET r == converted_messages(tick, 1, <<>>) IN
       IF ReachesAppend(r)
       THEN /\ message_queue' = append(message_queue, produced + 1)
            /\ produced' = produced + 1
            /\ payload' = Append(payload, r.list)
       ELSE UNCHANGED <<message_queue, produced, payload>>
    /\ UNCHANGED <<active_bybit_ws, clients, pc, loopVars, live, subscribed,
                   orderbook, exitCalls, stopped, dispatched, recipients,
                   received, failedAt, leftover, tick, klines_history,
                   response>>

\* The state when the vendor's thread calls bybit_callback: one client has
\* opened the subscription; the queue is empty or holds one earlier batch.
InitCallback ==
    /\ active_bybit_ws = 1
    /\ clients = {1}
    /\ pc = [c \in Conns |-> IF c = 1 THEN "reading" ELSE "idle"]
    /\ bpc = "sleep"
    /\ message = None
    /\ cur = None
    /\ rest = {}
    /\ live = {1}
    /\ subscribed = {1}
    /\ orderbook = {}
    /\ exitCalls = [c \in Conns |-> 0]
    /\ stopped = FALSE
    /\ \/ produced = 0 /\ message_queue = <<>> /\ payload = <<>>
       \/ /\ produced = 1
          /\ message_queue = <<1>>
          /\ payload = <<converted_messages(<<BaseRecord>>, 1, <<>>).list>>
    /\ dispatched = <<>>
    /\ recipients = [b \in Batches |-> {}]
    /\ received = [c \in Conns |-> <<>>]
    /\ failedAt = {}
    /\ leftover = {}
    /\ fpc = "called"
    /\ tick \in Ticks
    /\ klines_history = <<>>
    /\ response = <<>>

NextCallback == bybit_callback_call

SpecCallback == InitCallback /\ [][NextCallback]_vars

\* Mutant: the list is returned in the upstream order.
notReversed(q) == q

\* q[::-1]
reversed(q) == [i \in 1..Len(q) |-> q[Len(q) + 1 - i]]

\* The dict read_root puts in place of one row.
kline(row) ==
    [time |-> seconds(float(row[1]).val),
     open |-> float(row[2]).val,
     high |-> float(row[3]).val,
     low |-> float(row[4]).val,
     close |-> float(row[5]).val]

\* One call of read_root, from the upstream result to the returned list.
\* klines_history keeps the upstream result; the list rewritten in place is
\* the one that is reversed.
read_root ==
    /\ fpc = "called"
    /\ klines_history \in Results
    /\ fpc' = "returned"
    /\ response' = reversed([i \in 1..Len(klines_history) |->
                                kline(klines_history[i])])
    /\ UNCHANGED <<active_bybit_ws, message_queue, clients, pc, loopVars, live,
                   subscribed, orderbook, exitCalls, stopped, histVars,
                   leftover, tick, payload, klines_history>>

\* The state when session.get_kline has returned its result.
InitHistory ==
    /\ active_bybit_ws = None
    /\ message_queue = <<>>
    /\ clients = {}
    /\ pc = [c \in Conns |-> "idle"]
    /\ bpc = "sleep"
    /\ message = None
    /\ cur = None
    /\ rest = {}
    /\ live = {}
    /\ subscribed = {}
    /\ orderbook = {}
    /\ exitCalls = [c \in Conns |-> 0]
    /\ stopped = FALSE
    /\ produced = 0
    /\ dispatched = <<>>
    /\ recipients = [b \in Batches |-> {}]
    /\ received = [c \in Conns |-> <<>>]
    /\ failedAt = {}
    /\ leftover = {}
    /\ fpc = "called"
    /\ tick = <<>>
    /\ payload = <<>>
    /\ klines_history \in Results
    /\ response = <<>>

NextHistory == read_root

SpecHistory == InitHistory /\ [][NextHistory]_vars

-----------------------------------------------------------------------------
(* Vocabulary of the properties *)

Range(q) == {q[i] : i \in DOMAIN q}

\* The place of batch b in the order of dispatches.
Pos(b) == CHOOSE i \in DOMAIN dispatched : dispatched[i] = b

\* The for loop of b's dispatch has run to its end.
Completed(b) == b \in Range(dispatched) /\ message # b

\* send_text(b) to c has returned or raised.
Attempted(b, c) == b \in Range(received[c]) \/ <<b, c>> \in failedAt

NoDuplicates(q) == \A i, j \in DOMAIN q : q[i] = q[j] => i = j

Increasing(q) == \A i, j \in DOMAIN q : i < j => q[i] < q[j]

-----------------------------------------------------------------------------
(* C1 - C10 *)

\* C1: in every reachable state at most one upstream object is live, and a
\* live one is the object active_bybit_ws refers to; registrations that find
\* a handle, and concurrent registrations, never open a second one.
C1_AtMostOneSubscription ==
    /\ Cardinality(live) <= 1
    /\ live \subseteq {active_bybit_ws}

\* Two clients are registered and share one live subscription.
C1_Witness ==
    /\ Cardinality(clients) = 2
    /\ Cardinality(live) = 1
    /\ \E c \in Conns : pc[c] = "reading" /\ active_bybit_ws # c

\* C2 (as claimed): whenever the registry is empty, active_bybit_ws is None.
C2_EmptyRegistryClosed == clients = {} => active_bybit_ws = None

\* C3: a finally block that leaves the registry empty leaves the subscription
\* closed and the handle None in that same step; a disconnect that leaves
\* other clients registered changes neither the handle nor the live objects.
C3_LazyClose ==
    [][\A c \in Conns :
          /\ ( /\ pc[c] \in {"accepting", "reading"}
               /\ pc'[c] \in {"closed", "error"}
               /\ clients' = {} )
             => (active_bybit_ws' = None /\ live' = {})
          /\ ( /\ pc[c] = "reading"
               /\ pc'[c] = "closed"
               /\ clients' # {} )
             => /\ active_bybit_ws' = active_bybit_ws
                /\ live' = live
                /\ exitCalls' = exitCalls]_vars

\* Both clients have disconnected, one after the other, before any shutdown:
\* the registry is empty, the handle is None and exit() ran exactly once.
C3_Witness ==
    /\ ~stopped
    /\ \A c \in Conns : pc[c] = "closed"
    /\ clients = {}
    /\ active_bybit_ws = None
    /\ \E h \in Conns : exitCalls = [c \in Conns |-> IF c = h THEN 1 ELSE 0]

\* C4: the step that adds a client to the registry while there is no handle,
\* and in which the subscribe calls succeed, ends with the subscription open
\* and subscribed: the add and the open are one step of the event loop.
C4_LazyOpen ==
    [][\A c \in Conns :
          ( /\ c \notin clients
            /\ c \in clients'
            /\ active_bybit_ws = None )
          => /\ active_bybit_ws' # None
             /\ active_bybit_ws' \in live'
             /\ active_bybit_ws' \in subscribed']_vars

\* A client that opened the subscription is waiting for client messages.
C4_Witness ==
    \E c \in Conns :
        /\ pc[c] = "reading"
        /\ c \in clients
        /\ active_bybit_ws = c
        /\ c \in subscribed

\* C5: the i-th batch dispatched is the i-th batch enqueued, and what any one
\* client has received is an increasing subsequence of the dispatched batches.
C5_Fifo ==
    /\ \A i \in DOMAIN dispatched : dispatched[i] = i
    /\ \A c \in Conns :
          /\ Increasing(received[c])
          /\ Range(received[c]) \subseteq Range(dispatched)

\* Two batches were dispatched and one client received both.
C5_Witness ==
    /\ Len(dispatched) = 2
    /\ \E c \in Conns : received[c] = <<1, 2>>

\* C6 (as claimed): a dispatched batch has been delivered to every client
\* registered at the instant it was popped.
C6_DeliveredToAllRegistered ==
    \A b \in Batches :
        Completed(b) => \A c \in recipients[b] : b \in Range(received[c])

\* C6 (amended): once a dispatch has run to its end, a send of the batch has
\* been attempted to every client registered at the instant it was popped and
\* the batch was delivered to exactly those whose send did not raise; no
\* client outside that registry ever receives the batch.
C6_FanOut ==
    \A b \in Batches :
        /\ Completed(b) =>
              \A c \in recipients[b] :
                  /\ Attempted(b, c)
                  /\ b \in Range(received[c]) <=> <<b, c>> \notin failedAt
        /\ \A c \in Conns :
              Attempted(b, c) => (b \in Range(dispatched) /\ c \in recipients[b])

\* A client disconnected during a dispatch it was a recipient of: its send
\* raised, and the other recipient received the batch.
C6_Witness ==
    \E b \in Batches, c, d \in Conns :
        /\ Completed(b)
        /\ recipients[b] = {c, d}
        /\ pc[c] = "closed"
        /\ <<b, c>> \in failedAt
        /\ b \in Range(received[d])

\* C7: the step in which the send to A raises keeps every recipient the loop
\* has not reached yet, and goes on to the next of them; so in a dispatch that
\* has run to its end, a raised send to A leaves the send to every other
\* recipient B attempted.
C7_FaultIsolation ==
    /\ [][(failedAt' # failedAt /\ rest # {}) =>
            /\ bpc' = "send"
            /\ message' = message
            /\ cur' \in rest
            /\ rest' = rest \ {cur'}]_vars
    /\ [](\A b \in Batches : \A A, B \in recipients[b] :
            (Completed(b) /\ <<b, A>> \in failedAt) => Attempted(b, B))

\* The send to A raised while A's handler was still running, and B received
\* the same batch.
C7_Witness ==
    \E b \in Batches, A, B \in Conns :
        /\ A # B
        /\ Completed(b)
        /\ {A, B} \subseteq recipients[b]
        /\ <<b, A>> \in failedAt
        /\ pc[A] = "reading"
        /\ received[B] # <<>>
        /\ b \in Range(received[B])

\* C8: the queue changes only by an append of a new batch or by the pop of
\* its head in a tick that finds the registry non-empty; a popped batch is
\* never in the queue again, is dispatched once, and no client receives it
\* twice.
C8_PoppedOnce ==
    /\ [][message_queue' # message_queue =>
            \/ /\ produced' = produced + 1
               /\ message_queue' = Append(message_queue, produced')
            \/ /\ message_queue # <<>>
               /\ clients # {}
               /\ bpc = "sleep"
               /\ message_queue' = Tail(message_queue)
               /\ dispatched' = Append(dispatched, Head(message_queue))]_vars
    /\ [](/\ NoDuplicates(dispatched)
          /\ NoDuplicates(message_queue)
          /\ Range(dispatched) \cap Range(message_queue) = {}
          /\ \A c \in Conns : NoDuplicates(received[c]))

\* After one dispatch the loop sleeps with a batch queued and nobody registered.
C8_Witness ==
    /\ bpc = "sleep"
    /\ dispatched # <<>>
    /\ message_queue # <<>>
    /\ clients = {}

\* C9: from the step in which its send raised, a client is out of the
\* registry (also while the later clients of that dispatch are written to),
\* and every batch it has received was dispatched before the failing one.
C9_PrunedOnFailure ==
    \A b \in Batches, c \in Conns :
        <<b, c>> \in failedAt =>
            /\ c \notin clients
            /\ \A k \in Range(received[c]) : Pos(k) < Pos(b)

\* A's send raised while its handler was running; the loop is writing a later
\* batch to the other client.
C9_Witness ==
    \E b \in Batches, c \in Conns :
        /\ <<b, c>> \in failedAt
        /\ pc[c] = "reading"
        /\ bpc = "send"
        /\ message # b
        /\ cur # c

\* C10 (as claimed): a send that does not complete keeps no other recipient
\* of the dispatch waiting behind it, and no other registered client waiting
\* for a batch that is queued.
C10_NeverBlocks ==
    bpc = "hung" =>
        /\ rest = {}
        /\ message_queue # <<>> => clients \subseteq {cur}

-----------------------------------------------------------------------------
(* C11 - C20 *)

\* C11: a step that dispatches is a tick that found the queue and the
\* registry non-empty; it pops the head and nothing else, and starts sending
\* it.  With a single recipient whose send does not raise, that client has
\* the batch exactly once when the dispatch is over.
C11_OnePerTick ==
    /\ [][dispatched' # dispatched =>
            /\ bpc = "sleep"
            /\ message_queue # <<>>
            /\ clients # {}
            /\ dispatched' = Append(dispatched, Head(message_queue))
            /\ Len(message_queue') = Len(message_queue) - 1
            /\ message_queue' = Tail(message_queue)
            /\ bpc' = "send"
            /\ message' = Head(message_queue)]_vars
    /\ [](\A b \in Batches, c \in Conns :
            (Completed(b) /\ recipients[b] = {c} /\ <<b, c>> \notin failedAt)
            => Cardinality({i \in DOMAIN received[c] : received[c][i] = b}) = 1)

\* One tick has run with a single client registered: the client has exactly
\* the first batch, and the second batch is still queued.
C11_Witness ==
    \E c \in Conns :
        /\ bpc = "sleep"
        /\ recipients[1] = {c}
        /\ received[c] = <<1>>
        /\ dispatched = <<1>>
        /\ message_queue = <<2>>

\* C13: a registration whose open fails (the constructor or kline_stream
\* raises) ends, in the same step, with no handle, nothing live and the client
\* out of the registry; a later registration that finds no handle opens the
\* subscription itself.
C13_FailedOpenStaysClosed ==
    [][\A c \in Conns :
          /\ (pc[c] = "accepting" /\ pc'[c] = "error")
             => /\ active_bybit_ws' = None
                /\ live' = {}
                /\ subscribed' = {}
                /\ c \notin clients'
          /\ ( /\ pc[c] = "accepting"
               /\ pc'[c] = "reading"
               /\ \E d \in Conns : pc[d] = "error"
               /\ active_bybit_ws = None )
             => /\ active_bybit_ws' = c
                /\ c \in live'
                /\ c \in subscribed']_vars

\* Connection d constructed an object whose kline_stream raised (the object
\* was exited and d's handler ended with the error); the next client c then
\* opened the subscription.
C13_Witness ==
    \E c, d \in Conns :
        /\ c # d
        /\ pc[d] = "error"
        /\ exitCalls[d] = 1
        /\ pc[c] = "reading"
        /\ active_bybit_ws = c
        /\ c \in subscribed

\* C14 (as claimed): once the shutdown section has run, the broadcast task is
\* cancelled and no upstream object has been exited more than once, also when
\* connection handlers finish afterwards.
C14_ShutdownClosesOnce ==
    stopped =>
        /\ bpc = "cancelled"
        /\ \A h \in Conns : exitCalls[h] <= 1

\* C17: the batches popped so far followed by the queue are the batches
\* appended so far, in the order of their appends.
C17_NothingLostOrDuplicated ==
    dispatched \o message_queue = [i \in 1..produced |-> i]

\* A batch is appended while the dispatch of the one before is in progress.
C17_Witness ==
    /\ bpc = "send"
    /\ message = 1
    /\ dispatched = <<1>>
    /\ message_queue = <<2>>

\* C18 (as claimed): a handler that is reading client messages, and so may
\* process a subscribe command, always finds a handle.
C18_ReaderHasSubscription ==
    \A c \in Conns : pc[c] = "reading" => active_bybit_ws # None

\* C19: before shutdown, whenever a client is registered the handle exists
\* and refers to a live, subscribed object.
C19_RegisteredHasFeed ==
    (~stopped /\ clients # {}) =>
        /\ active_bybit_ws # None
        /\ active_bybit_ws \in live
        /\ active_bybit_ws \in subscribed

\* One client was pruned after a failed write and another is registered, on
\* the subscription the pruned one opened.
C19_Witness ==
    \E c, d \in Conns :
        /\ ~stopped
        /\ c # d
        /\ <<1, d>> \in failedAt
        /\ clients = {c}
        /\ active_bybit_ws = d

\* C20: the step that closes the subscription leaves the queue as it was and
\* dispatches and delivers nothing; a batch queued at that moment stays
\* queued until it is dispatched, is dispatched before every batch appended
\* after it, and is delivered to every recipient of its dispatch whose send
\* does not raise.
C20_CloseKeepsQueue ==
    /\ [][(active_bybit_ws # None /\ active_bybit_ws' = None) =>
            /\ message_queue' = message_queue
            /\ dispatched' = dispatched
            /\ received' = received]_vars
    /\ [](\A b \in leftover :
            /\ b \in Range(message_queue) \/ b \in Range(dispatched)
            /\ \A n \in Range(dispatched) :
                  n > b => (b \in Range(dispatched) /\ Pos(b) < Pos(n))
            /\ Completed(b) =>
                  \A c \in recipients[b] :
                      <<b, c>> \notin failedAt => b \in Range(received[c]))

\* A batch that was queued when the subscription was closed has been
\* delivered to the client that opened the next subscription, ahead of the
\* batch that subscription produced.
C20_Witness ==
    \E c \in Conns :
        /\ ~stopped
        /\ active_bybit_ws = c
        /\ 1 \in leftover
        /\ 2 \notin leftover
        /\ received[c] = <<1, 2>>

\* A raw record with a field missing, or a numeric field that is no number.
Malformed(m) ==
    \/ \E f \in NumericFields : m[f].kind # "num"
    \/ m.confirm = "absent"

\* C12: a call of bybit_callback on a tick with a malformed record leaves the
\* queue (and what it holds) unchanged; a call on a tick of well-formed
\* records appends exactly one batch, of one candle per record, in the
\* records' order.
C12_AllOrNothing ==
    [][(fpc = "called" /\ fpc' = "returned") =>
          IF \E i \in DOMAIN tick : Malformed(tick[i])
          THEN /\ message_queue' = message_queue
               /\ produced' = produced
               /\ payload' = payload
          ELSE /\ message_queue' = Append(message_queue, produced + 1)
               /\ produced' = produced + 1
               /\ Len(payload') = Len(payload) + 1
               /\ SubSeq(payload', 1, Len(payload)) = payload
               /\ LET b == payload'[Len(payload')] IN
                  /\ Len(b) = Len(tick)
                  /\ \A i \in DOMAIN tick :
                        /\ b[i].close = tick[i].close.val
                        /\ b[i].open = tick[i].open.val
                        /\ b[i].high = tick[i].high.val
                        /\ b[i].low = tick[i].low.val
                        /\ b[i].confirm = tick[i].confirm]_vars

\* The callback has returned from a tick whose first record is well formed
\* and whose second is not: the queue still holds only the earlier batch.
C12_Witness ==
    /\ fpc = "returned"
    /\ Len(tick) = 2
    /\ ~Malformed(tick[1])
    /\ Malformed(tick[2])
    /\ message_queue = <<1>>
    /\ Len(payload) = 1

\* C15: in the batch a call appends, candle i has time, start and end equal
\* to record i's timestamp, start and end in milliseconds divided by 1000
\* plus 10800 (here in thousandths of a second: T + 10800 * 1000), and the
\* record's confirm flag.
C15_TimeConversion ==
    [][(fpc = "called" /\ fpc' = "returned" /\ produced' # produced) =>
          LET b == payload'[Len(payload')] IN
          \A i \in DOMAIN b :
              /\ b[i].time = tick[i].timestamp.val + 10800 * 1000
              /\ b[i].start = tick[i].start.val + 10800 * 1000
              /\ b[i].end = tick[i].end.val + 10800 * 1000
              /\ b[i].confirm = tick[i].confirm]_vars

\* A record with timestamp 61250 ms was converted to 10861.250 s.
C15_Witness ==
    /\ fpc = "returned"
    /\ payload # <<>>
    /\ \E i \in DOMAIN tick :
          /\ tick[i].timestamp = Num(61250)
          /\ i \in DOMAIN payload[Len(payload)]
          /\ payload[Len(payload)][i].time = 10861250
          /\ payload[Len(payload)][i].confirm = "false"

\* C16: the list read_root returns has the length of the upstream result and
\* holds at place i the row at place n + 1 - i, mapped field by field, with
\* time = raw time / 1000 + 10800 (in thousandths of a second).
C16_HistoryReversed ==
    fpc = "returned" =>
        LET n == Len(klines_history) IN
        /\ Len(response) = n
        /\ \A i \in 1..n :
              LET row == klines_history[n + 1 - i] IN
              /\ response[i].time = row[1].val + 10800 * 1000
              /\ response[i].open = row[2].val
              /\ response[i].high = row[3].val
              /\ response[i].low = row[4].val
              /\ response[i].close = row[5].val

\* A result of three rows with different times has been returned.
C16_Witness ==
    /\ fpc = "returned"
    /\ Len(klines_history) = 3
    /\ Len(response) = 3
    /\ klines_history[1][1] = Num(60000)
    /\ klines_history[3][1] = Num(0)
    /\ response[1].time = 10800000
    /\ response[3].time = 10860000

=============================================================================
